---- MODULE Spec2Model ----
(***************************************************************************)
(* Model of the desktop text-to-speech session of tauri-plugin-tts         *)
(* (src/src/desktop.rs, src/src/models.rs): concurrent callers of speak,   *)
(* stop, get_voices, is_speaking, is_initialized, pause_speaking,          *)
(* resume_speaking and preview_voice on one Tts value, which owns the      *)
(* native engine behind a Mutex and the voice cache behind an RwLock.      *)
(*                                                                         *)
(* Strings are sequences of one-character strings.  Rates, pitches and     *)
(* volumes are in thousandths (1.0 is 1000).  Time is in seconds.          *)
(***************************************************************************)
EXTENDS Integers, Sequences, FiniteSets, TLC

\* The request handlers that run concurrently against the one Tts value.
Callers == {1, 2}
NoOne == 0

\* Option::None for an optional string (a string is a sequence of characters).
None == <<"None">>

\* ------------------------------------------------------------------ bounds
\* The clock advances in steps of TickSecs up to MaxNow.
TickSecs == 30
MaxNow == 60
\* How many times the host's installed voices change.
MaxVoiceChanges == 1
\* How many operations are invoked in all.
MaxCalls == 3
\* How many of the native calls of one engine closure return an error.
MaxFailures == 1

\* ------------------------------------------------------- program constants
MAX_TEXT_LENGTH == 10000
MAX_VOICE_ID_LENGTH == 256
MAX_LANGUAGE_LENGTH == 35
TTL == 60
DefaultRate == 1000
DefaultPitch == 1000
DefaultVolume == 1000

\* ------------------------------------------------------------------ strings
Letters ==
    {"a", "b", "c", "d", "e", "f", "g", "h", "i", "j", "k", "l", "m",
     "n", "o", "p", "q", "r", "s", "t", "u", "v", "w", "x", "y", "z",
     "A", "B", "C", "D", "E", "F", "G", "H", "I", "J", "K", "L", "M",
     "N", "O", "P", "Q", "R", "S", "T", "U", "V", "W", "X", "Y", "Z"}
Digits == {"0", "1", "2", "3", "4", "5", "6", "7", "8", "9"}
\* Non-ASCII characters that char::is_alphanumeric accepts (2 bytes in UTF-8).
UnicodeAlnum == {"é", "ß"}

\* char::is_alphanumeric: Unicode letters and digits.
is_alphanumeric(c) == c \in Letters \cup Digits \cup UnicodeAlnum

\* str::len: the length in bytes of the UTF-8 encoding.
ByteLen(s) == Len(s) + Cardinality({i \in 1..Len(s) : s[i] \in UnicodeAlnum})

\* char::to_lowercase on the characters used here.
LowerChar(c) ==
    CASE c = "A" -> "a" [] c = "B" -> "b" [] c = "C" -> "c" [] c = "D" -> "d"
      [] c = "E" -> "e" [] c = "F" -> "f" [] c = "G" -> "g" [] c = "H" -> "h"
      [] c = "I" -> "i" [] c = "J" -> "j" [] c = "K" -> "k" [] c = "L" -> "l"
      [] c = "M" -> "m" [] c = "N" -> "n" [] c = "O" -> "o" [] c = "P" -> "p"
      [] c = "Q" -> "q" [] c = "R" -> "r" [] c = "S" -> "s" [] c = "T" -> "t"
      [] c = "U" -> "u" [] c = "V" -> "v" [] c = "W" -> "w" [] c = "X" -> "x"
      [] c = "Y" -> "y" [] c = "Z" -> "z" [] OTHER -> c

\* A comparison that keeps the case.
to_lowercase_none(s) == s

to_lowercase(s) == [i \in 1..Len(s) |-> LowerChar(s[i])]

\* str::contains: needle occurs as a contiguous substring of hay.
contains(hay, needle) ==
    \E i \in 0..Len(hay) :
        /\ i + Len(needle) <= Len(hay)
        /\ \A j \in 1..Len(needle) : hay[i + j] = needle[j]

\* A clamp that lets every value through.
clamp_none(x, lo, hi) == x

\* f32::clamp.
clamp(x, lo, hi) == IF x < lo THEN lo ELSE IF x > hi THEN hi ELSE x

\* ---------------------------------------------------------------- validation
ValidationOk(v) == [ok |-> TRUE, err |-> "", value |-> v]
ValidationErr(e) == [ok |-> FALSE, err |-> e, value |-> None]

validate_voice_id(id) ==
    IF ByteLen(id) > MAX_VOICE_ID_LENGTH THEN ValidationErr("VoiceIdTooLong")
    ELSE IF ~(\A i \in 1..Len(id) :
                is_alphanumeric(id[i]) \/ id[i] = "." \/ id[i] = "_" \/ id[i] = "-")
    THEN ValidationErr("InvalidVoiceId")
    ELSE ValidationOk(id)

validate_language(lang) ==
    IF ByteLen(lang) > MAX_LANGUAGE_LENGTH THEN ValidationErr("LanguageTooLong")
    ELSE ValidationOk(lang)

\* Validation that looks at the voice id and the language before the text.
validate_text_last(r) ==
    IF r.voice_id # None /\ ~validate_voice_id(r.voice_id).ok
    THEN validate_voice_id(r.voice_id)
    ELSE IF r.language # None /\ ~validate_language(r.language).ok
    THEN validate_language(r.language)
    ELSE IF Len(r.text) = 0 THEN ValidationErr("EmptyText")
    ELSE IF ByteLen(r.text) > MAX_TEXT_LENGTH THEN ValidationErr("TextTooLong")
    ELSE ValidationOk([text |-> r.text,
                       language |-> r.language,
                       voice_id |-> r.voice_id,
                       rate |-> clamp(r.rate, 100, 4000),
                       pitch |-> clamp(r.pitch, 500, 2000),
                       volume |-> clamp(r.volume, 0, 1000),
                       queue_mode |-> r.queue_mode])

\* SpeakRequest::validate: the first failing rule decides; numbers are clamped.
validate(r) ==
    IF Len(r.text) = 0 THEN ValidationErr("EmptyText")
    ELSE IF ByteLen(r.text) > MAX_TEXT_LENGTH THEN ValidationErr("TextTooLong")
    ELSE IF r.voice_id # None /\ ~validate_voice_id(r.voice_id).ok
    THEN validate_voice_id(r.voice_id)
    ELSE IF r.language # None /\ ~validate_language(r.language).ok
    THEN validate_language(r.language)
    ELSE ValidationOk([text |-> r.text,
                       language |-> r.language,
                       voice_id |-> r.voice_id,
                       rate |-> clamp(r.rate, 100, 4000),
                       pitch |-> clamp(r.pitch, 500, 2000),
                       volume |-> clamp(r.volume, 0, 1000),
                       queue_mode |-> r.queue_mode])

DEFAULT_SAMPLE_TEXT ==
    <<"H", "e", "l", "l", "o", "!", " ", "T", "h", "i", "s", " ", "i", "s", " ",
      "a", " ", "s", "a", "m", "p", "l", "e", " ", "o", "f", " ", "h", "o", "w",
      " ", "t", "h", "i", "s", " ", "v", "o", "i", "c", "e", " ", "s", "o", "u",
      "n", "d", "s", ".">>

\* The default sentence whatever the payload's text.
sample_text_default_only(r) == DEFAULT_SAMPLE_TEXT

sample_text(r) == IF r.text # None THEN r.text ELSE DEFAULT_SAMPLE_TEXT

\* PreviewVoiceRequest::validate.
preview_validate(r) ==
    IF ~validate_voice_id(r.voice_id).ok THEN validate_voice_id(r.voice_id)
    ELSE IF r.text # None /\ Len(r.text) = 0 THEN ValidationErr("EmptyText")
    ELSE IF r.text # None /\ ByteLen(r.text) > MAX_TEXT_LENGTH
    THEN ValidationErr("TextTooLong")
    ELSE ValidationOk(None)

\* The SpeakRequest that preview_voice builds from its payload.
preview_speak_request(r) ==
    [text |-> sample_text(r), language |-> None, voice_id |-> r.voice_id,
     rate |-> DefaultRate, pitch |-> DefaultPitch, volume |-> DefaultVolume,
     queue_mode |-> "Flush"]

\* ------------------------------------------------------------ the engine
\* The native engine's rate scale (AVFoundation: 0.1 to 2.0, normal 0.5).
EngineRates == [min |-> 100, normal |-> 500, max |-> 2000]

\* normalize_rate_for_platform: piecewise linear, anchored at the normal rate.
normalize_rate_for_platform(e, user_rate) ==
    IF user_rate <= 1000
    THEN LET t == clamp(((user_rate - 250) * 1000) \div 750, 0, 1000)
         IN  e.min + (t * (e.normal - e.min)) \div 1000
    ELSE LET t == clamp(((user_rate - 1000) * 1000) \div 3000, 0, 1000)
         IN  e.normal + (t * (e.max - e.normal)) \div 1000

Voice(id, name, language) == [id |-> id, name |-> name, language |-> language]

\* The voices the host has installed, before and after a change.
VoicesBefore ==
    << Voice(<<"v", "1">>, <<"A">>, <<"e", "n", "-", "U", "S">>),
       Voice(<<"v", "2">>, <<"B">>, <<"p", "t", "-", "B", "R">>) >>
VoicesAfter ==
    << Voice(<<"v", "1">>, <<"A">>, <<"e", "n", "-", "U", "S">>),
       Voice(<<"v", "2">>, <<"B">>, <<"p", "t", "-", "B", "R">>),
       Voice(<<"v", "3">>, <<"C">>, <<"E", "N", "-", "g", "b">>) >>

\* ------------------------------------------------------------------- inputs
Hi == <<"H", "i">>

SpeakRequests ==
    { [text |-> Hi, language |-> None, voice_id |-> None,
       rate |-> 1000, pitch |-> 1000, volume |-> 1000, queue_mode |-> "Flush"],
      [text |-> Hi, language |-> <<"p", "t">>, voice_id |-> <<"v", "2">>,
       rate |-> 800, pitch |-> 1200, volume |-> 900, queue_mode |-> "Add"],
      [text |-> Hi, language |-> None, voice_id |-> <<"z", "z">>,
       rate |-> 5000, pitch |-> 1000, volume |-> 1000, queue_mode |-> "Flush"],
      [text |-> Hi, language |-> None, voice_id |-> <<"v", " ">>,
       rate |-> 1000, pitch |-> 1000, volume |-> 1000, queue_mode |-> "Flush"] }

PreviewVoiceRequests ==
    { [voice_id |-> <<"v", "1">>, text |-> None],
      [voice_id |-> <<"v", "1">>, text |-> <<>>] }

GetVoicesRequests == { [language |-> None], [language |-> <<"e", "n">>] }

\* ------------------------------------------------------------------- state
VARIABLES
    pc,            \* where each caller is in its operation
    op,            \* the operation each caller is running
    req,           \* its payload (validated once past validation)
    res,           \* its result
    fetched,       \* get_voices: the voices just enumerated (local `voices`)
    engine_lock,   \* Tts.engine: the caller holding the Mutex, or NoOne
    poisoned,      \* Tts.engine: the Mutex's poison flag
    engine,        \* the native engine's selected voice, rate, pitch, volume
    voicesEpoch,   \* how many times the host's installed voices have changed
    voice_cache,   \* Tts.voice_cache: <<>> (None) or <<VoiceCache>>
    readers,       \* Tts.voice_cache: the callers holding the RwLock for reading
    now,           \* Instant::now()
    ncalls,        \* the operations invoked so far
    g,             \* history of each caller's current call
    lastGV,        \* history of the get_voices call that returned Ok last
    utterance_callbacks, \* Features.utterance_callbacks of the engine
    registered,    \* the callbacks init has set on the engine
    emitted,       \* the events those callbacks have emitted
    arg,           \* a function applied on its own: its name and argument
    out            \* and what it returned

\* The session's state, and all of the state.
session == <<pc, op, req, res, fetched, engine_lock, poisoned, engine, voicesEpoch,
             voice_cache, readers, now, ncalls, g, lastGV, utterance_callbacks,
             registered, emitted>>
vars == <<session, arg, out>>

\* No function is applied on its own; a function applied has not returned.
NoArg == [fn |-> "none"]
NoOut == [returned |-> FALSE]

\* The payload of a call that takes none, and of a handler that runs no call.
NoPayload == [payload |-> "none"]

NoRes == [kind |-> "None", err |-> "", value |-> <<>>]
Ok(v) == [kind |-> "Ok", err |-> "", value |-> v]
Err(e) == [kind |-> "Err", err |-> e, value |-> <<>>]
Panicked == [kind |-> "Panic", err |-> "", value |-> <<>>]

NoLast == [valid |-> FALSE, t |-> 0, language |-> None, voices |-> <<>>, enums |-> 0]

\* The history kept per call: events emitted, whether the engine lock was
\* asked for, the engine calls made, what the engine was told to speak.
NoHistory ==
    [starts |-> 0, uttId |-> 0, cancels |-> 0, lockTried |-> FALSE,
     calls |-> <<>>, spoke |-> <<>>, hit |-> FALSE, stale |-> FALSE, t |-> -1,
     poisonedAtCall |-> FALSE, busy |-> FALSE, invalid |-> FALSE,
     failed |-> {}, after |-> NoLast]

\* The engine's voices() at this moment.
EngineVoiceList == IF voicesEpoch % 2 = 0 THEN VoicesBefore ELSE VoicesAfter

\* The engine lock is held by somebody else.
Busy(p) == engine_lock # NoOne /\ engine_lock # p

\* Callbacks set on every engine, whatever it supports.
RegisteredAlways(supported, refused) == {"on_utterance_end", "on_utterance_stop"} \ refused

\* SpeechEvent, with the name of the event it is emitted under.
SpeechEvent(name, id, event_type) == [name |-> name, id |-> id, event_type |-> event_type]

\* init: both callbacks are set when the engine supports utterance callbacks,
\* but for those in `refused`, whose setting returned an error (a warning is
\* logged); none is set when it does not.
Registered(supported, refused) ==
    IF supported THEN {"on_utterance_end", "on_utterance_stop"} \ refused ELSE {}

\* The handlers, the engine, its lock and the voice cache as init leaves them.
Handlers ==
    /\ pc = [p \in Callers |-> "idle"]
    /\ op = [p \in Callers |-> "none"]
    /\ req = [p \in Callers |-> NoPayload]
    /\ res = [p \in Callers |-> NoRes]
    /\ fetched = [p \in Callers |-> <<>>]
    /\ engine_lock = NoOne
    /\ poisoned = FALSE
    /\ engine = [voice |-> None, rate |-> EngineRates.normal,
                 pitch |-> DefaultPitch, volume |-> DefaultVolume]
    /\ voicesEpoch = 0
    /\ voice_cache = <<>>
    /\ readers = {}
    /\ now = 0
    /\ ncalls = 0
    /\ g = [p \in Callers |-> NoHistory]
    /\ lastGV = NoLast

\* The session as init constructs it on an engine that supports utterance
\* callbacks and accepts both.
Constructed ==
    /\ Handlers
    /\ utterance_callbacks = TRUE
    /\ registered = Registered(TRUE, {})
    /\ emitted = {}

Init ==
    /\ Constructed
    /\ arg = NoArg
    /\ out = NoOut

Ready(p) == pc[p] \in {"idle", "done"}

\* A call's result is seen in the state in which the call returns; the next
\* step of the system retires it, and the handler is free again.
Retire(f, blank) == [q \in Callers |-> IF pc[q] = "done" THEN blank ELSE f[q]]

\* Caller p's step: its new position, payload, result, fetched voices, history.
Locals(p, at, o, r, result, voices, h) ==
    /\ pc' = [Retire(pc, "idle") EXCEPT ![p] = at]
    /\ op' = [Retire(op, "none") EXCEPT ![p] = o]
    /\ req' = [Retire(req, NoPayload) EXCEPT ![p] = r]
    /\ res' = [Retire(res, NoRes) EXCEPT ![p] = result]
    /\ fetched' = [Retire(fetched, <<>>) EXCEPT ![p] = voices]
    /\ g' = [Retire(g, NoHistory) EXCEPT ![p] = h]
    /\ UNCHANGED <<arg, out, utterance_callbacks, registered, emitted>>

\* A step that is no handler's: the calls that have returned are retired.
Retired ==
    /\ pc' = Retire(pc, "idle")
    /\ op' = Retire(op, "none")
    /\ req' = Retire(req, NoPayload)
    /\ res' = Retire(res, NoRes)
    /\ fetched' = Retire(fetched, <<>>)
    /\ g' = Retire(g, NoHistory)

\* A step of the environment.
NoLocals ==
    /\ Retired
    /\ UNCHANGED <<arg, out, utterance_callbacks, registered, emitted>>

\* The history a call starts with.
Fresh(p) ==
    [NoHistory EXCEPT !.poisonedAtCall = poisoned, !.after = lastGV, !.busy = Busy(p)]

\* A request comes in and the first free handler takes it, with fresh locals.
Accept(p, o, r, at, result, h) ==
    /\ Ready(p)
    /\ \A q \in Callers : Ready(q) => q >= p
    /\ ncalls < MaxCalls
    /\ ncalls' = ncalls + 1
    /\ Locals(p, at, o, r, result, <<>>, h)

\* Caller p moves on within its operation.
Goes(p, at, r, result, voices, h) == Locals(p, at, op[p], r, result, voices, h)

\* ------------------------------------------------------------- with_engine
\* is_initialized: get_voices' result mapped to a voice count, an error to 0.
is_initialized_response(r) ==
    Ok([initialized |-> TRUE,
        voice_count |-> IF r.kind = "Ok" THEN Len(r.value.voices) ELSE 0])

\* What the caller of get_voices' code gets: is_initialized runs the same code
\* and maps its result.
Returned(o, r) == IF o = "is_initialized" THEN is_initialized_response(r) ELSE r

\* A lock that never waits.
CanLockAlways(p) == TRUE

\* Mutex::lock waits until nobody holds the lock.
CanLock(p) == engine_lock = NoOne

\* with_engine: self.engine.lock().map_err(|_| MutexPoisoned)?  A poisoned
\* lock yields MutexPoisoned and the closure does not run.
with_engine_lock(p) ==
    /\ pc[p] = "lock"
    /\ CanLock(p)
    /\ IF poisoned
       THEN /\ Goes(p, "done", req[p], Returned(op[p], Err("MutexPoisoned")), fetched[p],
                    [g[p] EXCEPT !.lockTried = TRUE])
            /\ UNCHANGED engine_lock
       ELSE /\ Goes(p, "engine", req[p], res[p], fetched[p],
                    [g[p] EXCEPT !.lockTried = TRUE])
            /\ engine_lock' = p
    /\ UNCHANGED <<poisoned, engine, voicesEpoch, voice_cache, readers, now,
                   ncalls, lastGV>>

\* A native call panics inside the closure: the guard is dropped while
\* unwinding, which poisons the Mutex.
engine_panic(p) ==
    /\ pc[p] = "engine"
    /\ engine_lock = p
    /\ engine_lock' = NoOne
    /\ poisoned' = TRUE
    /\ Goes(p, "done", req[p], Panicked, fetched[p], g[p])
    /\ UNCHANGED <<engine, voicesEpoch, voice_cache, readers, now, ncalls,
                   lastGV>>

\* The native calls among `calls` that returned an error.
Failed(calls, fails) == {c \in fails : \E i \in 1..Len(calls) : calls[i] = c}

\* The sets of native calls that return an error within one closure.
Failures(names) == {f \in SUBSET names : Cardinality(f) <= MaxFailures}

\* ------------------------------------------------------------------- speak
\* An identifier taken from the clock.
clock_uuid == now + 1

\* uuid::Uuid::new_v4(): an identifier no earlier call was given.
new_v4 == ncalls + 1

\* speak emitting speech:start first and validating afterwards.
speak_begin_emit_first(p, o, r) ==
    LET v == validate(r)
    IN  IF v.ok
        THEN Accept(p, o, v.value, "lock", NoRes,
                    [Fresh(p) EXCEPT !.starts = 1, !.uttId = ncalls + 1])
        ELSE Accept(p, o, r, "done", Err(v.err),
                    [Fresh(p) EXCEPT !.invalid = TRUE, !.starts = 1, !.uttId = ncalls + 1])

\* speak handing the payload to the engine as it came, clamped only.
speak_begin_unchecked(p, o, r) ==
    Accept(p, o,
           [r EXCEPT !.rate = clamp(r.rate, 100, 4000), !.pitch = clamp(r.pitch, 500, 2000),
                     !.volume = clamp(r.volume, 0, 1000)],
           "lock", NoRes, [Fresh(p) EXCEPT !.starts = 1, !.uttId = ncalls + 1])

\* speak up to with_engine: payload.validate()?, then the speech:start event
\* with a new utterance id.  `r` is a SpeakRequest.
speak_begin(p, o, r) ==
    LET v == validate(r)
    IN  IF v.ok
        THEN Accept(p, o, v.value, "lock", NoRes,
                    [Fresh(p) EXCEPT !.starts = 1, !.uttId = new_v4])
        ELSE Accept(p, o, r, "done", Err(v.err), [Fresh(p) EXCEPT !.invalid = TRUE])

speak_call(p, r) ==
    /\ speak_begin(p, "speak", r)
    /\ UNCHANGED <<engine_lock, poisoned, engine, voicesEpoch, voice_cache, readers,
                   now, lastGV>>

\* The rate configured on every speak.
sets_rate_always(v) == TRUE

\* The pitch configured whenever anything is, a pitch of 1.0 included.
sets_pitch_with_any(v) == ~(v.rate = 1000 /\ v.pitch = 1000 /\ v.volume = 1000)

all_defaults(v) == v.rate = 1000 /\ v.pitch = 1000 /\ v.volume = 1000
sets_rate(v) == ~all_defaults(v) /\ v.rate # 1000
sets_pitch(v) == ~all_defaults(v) /\ v.pitch # 1000
sets_volume(v) == ~all_defaults(v) /\ v.volume # 1000

EngineCalls == {"voices", "set_voice", "set_rate", "set_pitch", "set_volume", "speak"}
SpeakFailures == Failures(EngineCalls)

\* The closure failing when the voice asked for is not among the engine's.
speak_closure_voice_required(v, fails) ==
    LET wanted == v.voice_id # None
        found == /\ wanted
                 /\ "voices" \notin fails
                 /\ \E i \in 1..Len(EngineVoiceList) : EngineVoiceList[i].id = v.voice_id
        voice == IF found /\ "set_voice" \notin fails THEN v.voice_id ELSE engine.voice
        rate == IF sets_rate(v) /\ "set_rate" \notin fails
                THEN normalize_rate_for_platform(EngineRates, v.rate)
                ELSE engine.rate
        pitch == IF sets_pitch(v) /\ "set_pitch" \notin fails THEN v.pitch ELSE engine.pitch
        volume == IF sets_volume(v) /\ "set_volume" \notin fails
                  THEN v.volume ELSE engine.volume
        spoken == "speak" \notin fails
    IN  IF wanted /\ ~found
        THEN [engine |-> engine, calls |-> <<"voices">>, spoke |-> <<>>,
              res |-> Err("OperationFailed")]
        ELSE [engine |-> [voice |-> voice, rate |-> rate, pitch |-> pitch,
                          volume |-> volume],
              calls |-> (IF wanted THEN <<"voices">> ELSE <<>>)
                        \o (IF found THEN <<"set_voice">> ELSE <<>>)
                        \o (IF sets_rate(v) THEN <<"set_rate">> ELSE <<>>)
                        \o (IF sets_pitch(v) THEN <<"set_pitch">> ELSE <<>>)
                        \o (IF sets_volume(v) THEN <<"set_volume">> ELSE <<>>)
                        \o <<"speak">>,
              spoke |-> IF spoken
                        THEN << [text |-> v.text, interrupt |-> v.queue_mode # "Add",
                                 voice |-> voice, rate |-> rate, pitch |-> pitch,
                                 volume |-> volume] >>
                        ELSE <<>>,
              res |-> IF spoken THEN Ok([success |-> TRUE, warning |-> None])
                      ELSE Err("Tts")]

\* The closure giving up at the first setter that returns an error.
speak_closure_setters_required(v, fails) ==
    LET wanted == v.voice_id # None
        found == /\ wanted
                 /\ "voices" \notin fails
                 /\ \E i \in 1..Len(EngineVoiceList) : EngineVoiceList[i].id = v.voice_id
        made == (IF wanted THEN <<"voices">> ELSE <<>>)
                \o (IF found THEN <<"set_voice">> ELSE <<>>)
                \o (IF sets_rate(v) THEN <<"set_rate">> ELSE <<>>)
                \o (IF sets_pitch(v) THEN <<"set_pitch">> ELSE <<>>)
                \o (IF sets_volume(v) THEN <<"set_volume">> ELSE <<>>)
        refused == Failed(made, fails) \ {"voices"} # {}
        voice == IF found /\ "set_voice" \notin fails THEN v.voice_id ELSE engine.voice
        rate == IF sets_rate(v) /\ "set_rate" \notin fails
                THEN normalize_rate_for_platform(EngineRates, v.rate)
                ELSE engine.rate
        pitch == IF sets_pitch(v) /\ "set_pitch" \notin fails THEN v.pitch ELSE engine.pitch
        volume == IF sets_volume(v) /\ "set_volume" \notin fails
                  THEN v.volume ELSE engine.volume
        spoken == ~refused /\ "speak" \notin fails
    IN  [engine |-> [voice |-> voice, rate |-> rate, pitch |-> pitch, volume |-> volume],
         calls |-> IF refused THEN made ELSE made \o <<"speak">>,
         spoke |-> IF spoken
                   THEN << [text |-> v.text, interrupt |-> v.queue_mode # "Add",
                            voice |-> voice, rate |-> rate, pitch |-> pitch,
                            volume |-> volume] >>
                   ELSE <<>>,
         res |-> IF spoken THEN Ok([success |-> TRUE, warning |-> None]) ELSE Err("Tts")]

\* Speech that always waits for the speech before it.
interrupt_never(v) == FALSE

\* flush (the default) interrupts the current speech, add queues behind it.
interrupt(v) == v.queue_mode # "Add"

\* The closure speak hands to with_engine, run on validated request v with the
\* native calls in `fails` returning Err: the engine afterwards, the native
\* calls made, what was spoken and the result.
speak_closure(v, fails) ==
    LET wanted == v.voice_id # None
        found == /\ wanted
                 /\ "voices" \notin fails
                 /\ \E i \in 1..Len(EngineVoiceList) : EngineVoiceList[i].id = v.voice_id
        voice == IF found /\ "set_voice" \notin fails THEN v.voice_id ELSE engine.voice
        rate == IF sets_rate(v) /\ "set_rate" \notin fails
                THEN normalize_rate_for_platform(EngineRates, v.rate)
                ELSE engine.rate
        pitch == IF sets_pitch(v) /\ "set_pitch" \notin fails THEN v.pitch ELSE engine.pitch
        volume == IF sets_volume(v) /\ "set_volume" \notin fails
                  THEN v.volume ELSE engine.volume
        spoken == "speak" \notin fails
    IN  [engine |-> [voice |-> voice, rate |-> rate, pitch |-> pitch, volume |-> volume],
         calls |-> (IF wanted THEN <<"voices">> ELSE <<>>)
                   \o (IF found THEN <<"set_voice">> ELSE <<>>)
                   \o (IF sets_rate(v) THEN <<"set_rate">> ELSE <<>>)
                   \o (IF sets_pitch(v) THEN <<"set_pitch">> ELSE <<>>)
                   \o (IF sets_volume(v) THEN <<"set_volume">> ELSE <<>>)
                   \o <<"speak">>,
         spoke |-> IF spoken
                   THEN << [text |-> v.text, interrupt |-> interrupt(v), voice |-> voice,
                            rate |-> rate, pitch |-> pitch, volume |-> volume] >>
                   ELSE <<>>,
         res |-> IF spoken THEN Ok([success |-> TRUE, warning |-> None]) ELSE Err("Tts")]

speak_engine(p) ==
    /\ pc[p] = "engine"
    /\ op[p] \in {"speak", "preview_voice"}
    /\ engine_lock = p
    /\ \E fails \in SpeakFailures :
         LET c == speak_closure(req[p], fails)
         IN  /\ engine' = c.engine
             /\ Goes(p, "done", req[p], c.res, fetched[p],
                     [g[p] EXCEPT !.calls = c.calls, !.spoke = c.spoke,
                                  !.failed = Failed(c.calls, fails)])
    /\ engine_lock' = NoOne
    /\ UNCHANGED <<poisoned, voicesEpoch, voice_cache, readers, now, ncalls,
                   lastGV>>

\* ----------------------------------------------------------- preview_voice
\* payload.validate()?, then self.speak(speak_request).
preview_voice_call(p, r) ==
    /\ LET v == preview_validate(r)
       IN  IF v.ok
           THEN speak_begin(p, "preview_voice", preview_speak_request(r))
           ELSE Accept(p, "preview_voice", r, "done", Err(v.err),
                       [Fresh(p) EXCEPT !.invalid = TRUE])
    /\ UNCHANGED <<engine_lock, poisoned, engine, voicesEpoch, voice_cache, readers,
                   now, lastGV>>

\* -------------------------------------------------------------------- stop
\* stop leaving the cancel event to the engine's on_utterance_stop callback.
stop_call_quiet(p) ==
    /\ Accept(p, "stop", NoPayload, "lock", NoRes, Fresh(p))
    /\ UNCHANGED <<engine_lock, poisoned, engine, voicesEpoch, voice_cache, readers,
                   now, lastGV>>

\* stop up to with_engine: the speech:cancel event.
stop_call(p) ==
    /\ Accept(p, "stop", NoPayload, "lock", NoRes, [Fresh(p) EXCEPT !.cancels = 1])
    /\ UNCHANGED <<engine_lock, poisoned, engine, voicesEpoch, voice_cache, readers,
                   now, lastGV>>

stop_engine(p) ==
    /\ pc[p] = "engine"
    /\ op[p] = "stop"
    /\ engine_lock = p
    /\ \E fails \in Failures({"stop"}) :
         Goes(p, "done", req[p],
              IF "stop" \notin fails THEN Ok([success |-> TRUE]) ELSE Err("Tts"),
              fetched[p], [g[p] EXCEPT !.calls = <<"stop">>, !.failed = fails])
    /\ engine_lock' = NoOne
    /\ UNCHANGED <<poisoned, engine, voicesEpoch, voice_cache, readers, now,
                   ncalls, lastGV>>

\* ------------------------------------------------------------- is_speaking
is_speaking_call(p) ==
    /\ Accept(p, "is_speaking", NoPayload, "lock", NoRes, Fresh(p))
    /\ UNCHANGED <<engine_lock, poisoned, engine, voicesEpoch, voice_cache, readers,
                   now, lastGV>>

is_speaking_engine(p) ==
    /\ pc[p] = "engine"
    /\ op[p] = "is_speaking"
    /\ engine_lock = p
    /\ \E fails \in Failures({"is_speaking"}), speaking \in BOOLEAN :
         Goes(p, "done", req[p],
              IF "is_speaking" \notin fails THEN Ok([speaking |-> speaking]) ELSE Err("Tts"),
              fetched[p], [g[p] EXCEPT !.calls = <<"is_speaking">>, !.failed = fails])
    /\ engine_lock' = NoOne
    /\ UNCHANGED <<poisoned, engine, voicesEpoch, voice_cache, readers, now,
                   ncalls, lastGV>>

\* -------------------------------------------------- pause / resume (desktop)
\* A refusal that gives no reason.
NotSupportedSilent(what) == Ok([success |-> FALSE, reason |-> ""])

NotSupported(what) == Ok([success |-> FALSE, reason |-> what])

pause_speaking(p) ==
    /\ Accept(p, "pause_speaking", NoPayload, "done",
              NotSupported("Pause is not supported on desktop platform"), Fresh(p))
    /\ UNCHANGED <<engine_lock, poisoned, engine, voicesEpoch, voice_cache, readers,
                   now, lastGV>>

resume_speaking(p) ==
    /\ Accept(p, "resume_speaking", NoPayload, "done",
              NotSupported("Resume is not supported on desktop platform"), Fresh(p))
    /\ UNCHANGED <<engine_lock, poisoned, engine, voicesEpoch, voice_cache, readers,
                   now, lastGV>>

\* -------------------------------------------------------------- get_voices
filter_voices(voices, language) ==
    [voices |->
        SelectSeq(voices,
                  LAMBDA v : IF language # None
                             THEN contains(to_lowercase(v.language), to_lowercase(language))
                             ELSE TRUE)]

\* A cache entry that keeps the time of the first capture.
VoiceCacheNew_epoch(voices) ==
    [voices |-> voices,
     cached_at |-> IF voice_cache = <<>> THEN now ELSE voice_cache[1].cached_at]

\* The comparison against the TTL the wrong way round.
is_valid_inverted(c) == now - c.cached_at >= TTL

\* VoiceCache::new and VoiceCache::is_valid.
VoiceCacheNew(voices) == [voices |-> voices, cached_at |-> now]
is_valid(c) == now - c.cached_at < TTL

\* How many times the call enumerated the engine's voices.
Enums(h) == Cardinality({i \in 1..Len(h.calls) : h.calls[i] = "voices"})

\* The record kept of a get_voices call that returned Ok.
Remember(p, r, h) ==
    IF op[p] = "get_voices" /\ r.kind = "Ok"
    THEN [valid |-> TRUE, t |-> h.t, language |-> req[p].language,
          voices |-> r.value.voices, enums |-> Enums(h)]
    ELSE lastGV

\* get_voices up to the cache check: self.voice_cache.read(), which is shared
\* with other readers.
cache_read(p, o, r) ==
    /\ Accept(p, o, r, "cache_check", NoRes, Fresh(p))
    /\ readers' = readers \cup {p}
    /\ UNCHANGED <<engine_lock, poisoned, engine, voicesEpoch, voice_cache, now, lastGV>>

get_voices_call(p, r) == cache_read(p, "get_voices", r)

\* is_initialized: self.get_voices(GetVoicesRequest { language: None }).
is_initialized_call(p) == cache_read(p, "is_initialized", [language |-> None])

\* The cache check that keeps its read guard on a miss.
cache_check_keeps_guard(p) ==
    /\ pc[p] = "cache_check"
    /\ p \in readers
    /\ IF voice_cache # <<>> /\ is_valid(voice_cache[1])
       THEN LET r == Ok(filter_voices(voice_cache[1].voices, req[p].language))
                h == [g[p] EXCEPT !.hit = TRUE, !.t = now, !.busy = Busy(p)]
            IN  /\ Goes(p, "done", req[p], Returned(op[p], r), fetched[p], h)
                /\ lastGV' = Remember(p, r, h)
                /\ readers' = readers \ {p}
       ELSE /\ Goes(p, "lock", req[p], res[p], fetched[p],
                    [g[p] EXCEPT !.t = now, !.stale = (voice_cache # <<>>)])
            /\ UNCHANGED <<lastGV, readers>>
    /\ UNCHANGED <<engine_lock, poisoned, engine, voicesEpoch, voice_cache, now, ncalls>>

\* The cached voices are served when present and valid; the read guard is dropped.
cache_check(p) ==
    /\ pc[p] = "cache_check"
    /\ p \in readers
    /\ readers' = readers \ {p}
    /\ IF voice_cache # <<>> /\ is_valid(voice_cache[1])
       THEN LET r == Ok(filter_voices(voice_cache[1].voices, req[p].language))
                h == [g[p] EXCEPT !.hit = TRUE, !.t = now, !.busy = Busy(p)]
            IN  /\ Goes(p, "done", req[p], Returned(op[p], r), fetched[p], h)
                /\ lastGV' = Remember(p, r, h)
       ELSE /\ Goes(p, "lock", req[p], res[p], fetched[p],
                    [g[p] EXCEPT !.t = now, !.stale = (voice_cache # <<>>)])
            /\ UNCHANGED lastGV
    /\ UNCHANGED <<engine_lock, poisoned, engine, voicesEpoch, voice_cache, now, ncalls>>

\* engine.voices()? mapped into Voice values, or the error.
enumerate(fails) ==
    IF "voices" \notin fails
    THEN Ok([i \in 1..Len(EngineVoiceList) |->
                Voice(EngineVoiceList[i].id, EngineVoiceList[i].name,
                      EngineVoiceList[i].language)])
    ELSE Err("Tts")

\* A refresh that empties the cache when the enumeration fails.
get_voices_engine_clears(p) ==
    /\ pc[p] = "engine"
    /\ op[p] \in {"get_voices", "is_initialized"}
    /\ engine_lock = p
    /\ \E fails \in Failures({"voices"}) :
         LET e == enumerate(fails)
             h == [g[p] EXCEPT !.calls = <<"voices">>, !.failed = fails]
         IN  IF e.kind = "Ok"
             THEN /\ Goes(p, "cache_store", req[p], res[p], e.value, h)
                  /\ UNCHANGED voice_cache
             ELSE /\ Goes(p, "done", req[p], Returned(op[p], e), fetched[p], h)
                  /\ voice_cache' = <<>>
    /\ engine_lock' = NoOne
    /\ UNCHANGED <<poisoned, engine, voicesEpoch, readers, now, ncalls, lastGV>>

\* The closure get_voices hands to with_engine.
get_voices_engine(p) ==
    /\ pc[p] = "engine"
    /\ op[p] \in {"get_voices", "is_initialized"}
    /\ engine_lock = p
    /\ \E fails \in Failures({"voices"}) :
         LET e == enumerate(fails)
             h == [g[p] EXCEPT !.calls = <<"voices">>, !.failed = fails]
         IN  IF e.kind = "Ok"
             THEN Goes(p, "cache_store", req[p], res[p], e.value, h)
             ELSE Goes(p, "done", req[p], Returned(op[p], e), fetched[p], h)
    /\ engine_lock' = NoOne
    /\ UNCHANGED <<poisoned, engine, voicesEpoch, voice_cache, readers, now,
                   ncalls, lastGV>>

\* The voices of `old` followed by those of `new` that `old` does not have.
Merged(old, new) ==
    old \o SelectSeq(new, LAMBDA v : \A i \in 1..Len(old) : old[i].id # v.id)

\* A refresh that adds the voices enumerated to those already cached.
cache_store_merged(p) ==
    /\ pc[p] = "cache_store"
    /\ readers = {}
    /\ voice_cache' = << VoiceCacheNew(IF voice_cache = <<>> THEN fetched[p]
                                       ELSE Merged(voice_cache[1].voices, fetched[p])) >>
    /\ LET r == Ok(filter_voices(fetched[p], req[p].language))
       IN  /\ Goes(p, "done", req[p], Returned(op[p], r), fetched[p], g[p])
           /\ lastGV' = Remember(p, r, g[p])
    /\ UNCHANGED <<engine_lock, poisoned, engine, voicesEpoch, readers, now,
                   ncalls>>

\* self.voice_cache.write(), exclusive of every reader, then
\* *cache = Some(VoiceCache::new(voices.clone())); the filtered voices are returned.
cache_store(p) ==
    /\ pc[p] = "cache_store"
    /\ readers = {}
    /\ voice_cache' = << VoiceCacheNew(fetched[p]) >>
    /\ LET r == Ok(filter_voices(fetched[p], req[p].language))
       IN  /\ Goes(p, "done", req[p], Returned(op[p], r), fetched[p], g[p])
           /\ lastGV' = Remember(p, r, g[p])
    /\ UNCHANGED <<engine_lock, poisoned, engine, voicesEpoch, readers, now,
                   ncalls>>

\* ------------------------------------------------------------ environment
\* Time passes.
Tick ==
    /\ now + TickSecs <= MaxNow
    /\ now' = now + TickSecs
    /\ NoLocals
    /\ UNCHANGED <<engine_lock, poisoned, engine, voicesEpoch, voice_cache, readers, ncalls, lastGV>>

\* A voice is installed on or removed from the host.
HostVoicesChange ==
    /\ voicesEpoch < MaxVoiceChanges
    /\ voicesEpoch' = voicesEpoch + 1
    /\ NoLocals
    /\ UNCHANGED <<engine_lock, poisoned, engine, voice_cache, readers, now,
                   ncalls, lastGV>>

\* ------------------------------------------------------ engine callbacks
\* An emitter that waits for the engine lock to be free.
EmitterNeedsEngine == engine_lock = NoOne

\* EventEmitter::emit goes through the AppHandle alone: it takes neither the
\* engine lock nor the cache lock, so it is ready whoever holds them.
EmitterReady == TRUE

\* The engine calls the callback `cb`, if init has set it: the callback emits
\* the event `e` and does nothing else.
Callback(cb, e) ==
    /\ EmitterReady
    /\ emitted' = IF cb \in registered THEN emitted \cup {e} ELSE emitted
    /\ Retired
    /\ UNCHANGED <<engine_lock, poisoned, engine, voicesEpoch, voice_cache, readers,
                   now, ncalls, lastGV>>

\* The engine reports that an utterance has ended by itself: the
\* on_utterance_end callback emits speech:finish.
utterance_end ==
    /\ Callback("on_utterance_end", SpeechEvent("speech:finish", None, "finish"))
    /\ UNCHANGED <<utterance_callbacks, registered, arg, out>>

\* The engine reports that an utterance was stopped or interrupted: the
\* on_utterance_stop callback emits speech:cancel.
utterance_stop ==
    /\ Callback("on_utterance_stop", SpeechEvent("speech:cancel", None, "cancel"))
    /\ UNCHANGED <<utterance_callbacks, registered, arg, out>>

\* ------------------------------------------------------------ specifications
\* The operations that speak or stop.
Operations ==
    \/ \E p \in Callers, r \in SpeakRequests : speak_call(p, r)
    \/ \E p \in Callers : speak_engine(p)
    \/ \E p \in Callers : stop_call(p)
    \/ \E p \in Callers : stop_engine(p)
    \/ \E p \in Callers : is_speaking_call(p)
    \/ \E p \in Callers : is_speaking_engine(p)
    \/ \E p \in Callers : pause_speaking(p)
    \/ \E p \in Callers : resume_speaking(p)
    \/ \E p \in Callers, r \in PreviewVoiceRequests : preview_voice_call(p, r)

\* get_voices' code as is_initialized runs it, and with_engine.
VoiceOperations ==
    \/ \E p \in Callers : is_initialized_call(p)
    \/ \E p \in Callers : cache_check(p)
    \/ \E p \in Callers : get_voices_engine(p)
    \/ \E p \in Callers : cache_store(p)
    \/ \E p \in Callers : with_engine_lock(p)
    \/ \E p \in Callers : engine_panic(p)

\* The operations in any interleaving, with the clock stopped.
Next == Operations \/ VoiceOperations

Spec == Init /\ [][Next]_vars

\* get_voices with its language filters, while time passes and the host's
\* voices change.
NextClock ==
    \/ \E p \in Callers, r \in GetVoicesRequests : get_voices_call(p, r)
    \/ VoiceOperations
    \/ Tick
    \/ HostVoicesChange

SpecClock == Init /\ [][NextClock]_vars

\* The speak requests that leave the engine's voice and parameters alone.
PlainSpeakRequests == {r \in SpeakRequests : r.voice_id = None}

\* get_voices next to the operations that do not use the cache, while time
\* passes.
NextCache ==
    \/ \E p \in Callers, r \in GetVoicesRequests : get_voices_call(p, r)
    \/ VoiceOperations
    \/ Tick
    \/ \E p \in Callers, r \in PlainSpeakRequests : speak_call(p, r)
    \/ \E p \in Callers : speak_engine(p)
    \/ \E p \in Callers : stop_call(p)
    \/ \E p \in Callers : stop_engine(p)
    \/ \E p \in Callers : is_speaking_call(p)
    \/ \E p \in Callers : is_speaking_engine(p)
    \/ \E p \in Callers : pause_speaking(p)
    \/ \E p \in Callers : resume_speaking(p)

SpecCache == Init /\ [][NextCache]_vars

\* init on an engine that may or may not support utterance callbacks, and may
\* refuse either callback.
InitEvents ==
    /\ Handlers
    /\ \E supported \in BOOLEAN, refused \in SUBSET {"on_utterance_end", "on_utterance_stop"} :
         /\ utterance_callbacks = supported
         /\ registered = Registered(supported, refused)
    /\ emitted = {}
    /\ arg = NoArg
    /\ out = NoOut

\* The steps of handler p after it has taken a call, every native call
\* returning: taking the engine lock, an engine closure, the cache check or
\* the cache store.
Runs(p) ==
    \/ with_engine_lock(p)
    \/ speak_engine(p)
    \/ stop_engine(p)
    \/ is_speaking_engine(p)
    \/ cache_check(p)
    \/ get_voices_engine(p)
    \/ cache_store(p)

\* speak, stop, get_voices and is_speaking in any interleaving, with the
\* engine reporting the end or the stop of an utterance at any moment.
NextEvents ==
    \/ \E p \in Callers, r \in PlainSpeakRequests : speak_call(p, r)
    \/ \E p \in Callers : stop_call(p)
    \/ \E p \in Callers : is_speaking_call(p)
    \/ \E p \in Callers, r \in GetVoicesRequests : get_voices_call(p, r)
    \/ \E p \in Callers : Runs(p)
    \/ utterance_end
    \/ utterance_stop

\* Every handler that can take a step does so in the end: threads are
\* scheduled and native calls return.  Nothing is assumed of the order in
\* which the Mutex is handed to those waiting for it.
SpecEvents == InitEvents /\ [][NextEvents]_vars /\ \A p \in Callers : WF_pc(Runs(p))

\* ------------------------------------------- validation applied on its own
\* A string of n times the character c.
Repeat(c, n) == [i \in 1..n |-> c]

\* Texts: empty, short, at the byte limit, one byte over it, and 5,001
\* two-byte characters (10,002 bytes).
Texts ==
    { <<>>, Hi, Repeat("a", MAX_TEXT_LENGTH), Repeat("a", MAX_TEXT_LENGTH + 1),
      Repeat("é", MAX_TEXT_LENGTH \div 2 + 1) }

\* Voice ids: allowed characters, a space, a slash, a non-ASCII letter, at the
\* byte limit, over it, and over it with a character that is not allowed.
VoiceIds ==
    { <<"v", "1">>, <<"a", ".", "B", "_", "9", "-">>, <<"v", " ">>, <<"v", "/", "1">>,
      <<"é">>, <<>>, Repeat("a", MAX_VOICE_ID_LENGTH), Repeat("a", MAX_VOICE_ID_LENGTH + 1),
      Repeat("a", MAX_VOICE_ID_LENGTH) \o <<"!">>,
      Repeat("é", MAX_VOICE_ID_LENGTH \div 2 + 1) }

\* Languages: short, at the byte limit, over it.
Languages ==
    { <<"p", "t">>, Repeat("a", MAX_LANGUAGE_LENGTH), Repeat("a", MAX_LANGUAGE_LENGTH + 1),
      Repeat("é", MAX_LANGUAGE_LENGTH \div 2 + 1) }

\* Rate, pitch and volume: in range, at the limits, below and above them.
Parameters ==
    { <<1000, 1000, 1000>>, <<800, 1200, 900>>, <<100, 500, 0>>, <<4000, 2000, 1000>>,
      <<99, 499, -1>>, <<4001, 2001, 1001>>, <<0, 0, -5000>>, <<5000, 10000, 2000>>,
      <<-1000, 1000, 500>> }

ValidateArgs ==
    { [fn |-> "validate",
       req |-> [text |-> t, language |-> l, voice_id |-> v,
                rate |-> n[1], pitch |-> n[2], volume |-> n[3], queue_mode |-> "Flush"]] :
      t \in Texts, l \in Languages \cup {None}, v \in VoiceIds \cup {None}, n \in Parameters }

VoiceIdArgs == { [fn |-> "validate_voice_id", id |-> v] : v \in VoiceIds }

PreviewArgs ==
    { [fn |-> "preview_voice", req |-> [voice_id |-> v, text |-> t]] :
      v \in VoiceIds, t \in Texts \cup {None} }

Returns(v) == [returned |-> TRUE, value |-> v]

\* SpeakRequest::validate applied to a request.
validate_apply ==
    /\ arg.fn = "validate"
    /\ ~out.returned
    /\ out' = Returns(validate(arg.req))
    /\ UNCHANGED <<session, arg>>

\* SpeakRequest::validate_voice_id applied to a voice id.
validate_voice_id_apply ==
    /\ arg.fn = "validate_voice_id"
    /\ ~out.returned
    /\ out' = Returns(validate_voice_id(arg.id))
    /\ UNCHANGED <<session, arg>>

\* preview_voice on an idle, healthy engine whose native calls succeed: the
\* result, and what native speak was given.
preview_voice_outcome(r) ==
    LET pv == preview_validate(r)
        v == validate(preview_speak_request(r))
    IN  IF ~pv.ok THEN [res |-> Err(pv.err), spoke |-> <<>>]
        ELSE IF ~v.ok THEN [res |-> Err(v.err), spoke |-> <<>>]
        ELSE [res |-> speak_closure(v.value, {}).res,
              spoke |-> speak_closure(v.value, {}).spoke]

preview_voice_apply ==
    /\ arg.fn = "preview_voice"
    /\ ~out.returned
    /\ out' = Returns(preview_voice_outcome(arg.req))
    /\ UNCHANGED <<session, arg>>

InitValidate ==
    /\ Constructed
    /\ arg \in ValidateArgs \cup VoiceIdArgs \cup PreviewArgs
    /\ out = NoOut

NextValidate == validate_apply \/ validate_voice_id_apply \/ preview_voice_apply

\* Validation and preview_voice on every input of the sets above.
SpecValidate == InitValidate /\ [][NextValidate]_vars

\* ------------------------------------------------------ f32 arithmetic
\* A finite f32 is [m, e], the value m * 2^e, with m = 0 or 2^23 <= |m| < 2^24.
\* Every operation rounds to nearest, ties to even, as IEEE 754 binary32 does
\* (no subnormals, infinities or NaN: the rates here stay far from them).
Abs(n) == IF n < 0 THEN -n ELSE n
Sign(n) == IF n < 0 THEN -1 ELSE 1

RECURSIVE BitLen(_)
BitLen(n) == IF n = 0 THEN 0 ELSE 1 + BitLen(n \div 2)

F32Zero == [m |-> 0, e |-> 0]

\* m * 2^e rounded to the nearest f32.
RoundF32(m, e) ==
    IF m = 0 THEN F32Zero
    ELSE LET mag == Abs(m)
             bits == BitLen(mag)
         IN  IF bits <= 24
             THEN [m |-> Sign(m) * mag * 2^(24 - bits), e |-> e - (24 - bits)]
             ELSE LET s == bits - 24
                      q == mag \div 2^s
                      r == mag % 2^s
                      up == r > 2^(s - 1) \/ (r = 2^(s - 1) /\ q % 2 = 1)
                      q1 == IF up THEN q + 1 ELSE q
                  IN  IF q1 = 2^24
                      THEN [m |-> Sign(m) * 2^23, e |-> e + s + 1]
                      ELSE [m |-> Sign(m) * q1, e |-> e + s]

\* x with its lowest bit set when `inexact`: the bits dropped below it.
Sticky(x, inexact) == IF inexact /\ x % 2 = 0 THEN x + 1 ELSE x

\* x / 2^d, what is shifted out remembered in the lowest bit.
ShiftRight(x, d) ==
    IF d >= 30 THEN (IF x # 0 THEN 1 ELSE 0)
    ELSE Sticky(x \div 2^d, x % 2^d # 0)

f32_neg(a) == [m |-> -a.m, e |-> a.e]

f32_add(a, b) ==
    IF a.m = 0 THEN b
    ELSE IF b.m = 0 THEN a
    ELSE LET hi == IF a.e >= b.e THEN a ELSE b
             lo == IF a.e >= b.e THEN b ELSE a
         IN  RoundF32(hi.m * 8 + Sign(lo.m) * ShiftRight(Abs(lo.m) * 8, hi.e - lo.e),
                      hi.e - 3)

f32_sub(a, b) == f32_add(a, f32_neg(b))

\* The 48-bit product of two 24-bit mantissas, by 12-bit halves: its leading
\* bits, the rest remembered in the lowest bit.
f32_mul(a, b) ==
    IF a.m = 0 \/ b.m = 0 THEN F32Zero
    ELSE LET am == Abs(a.m)
             bm == Abs(b.m)
             a1 == am \div 2^12
             a0 == am % 2^12
             b1 == bm \div 2^12
             b0 == bm % 2^12
             mid == a1 * b0 + a0 * b1
             low == a0 * b0 + (mid % 2^12) * 2^12
             high == a1 * b1 + mid \div 2^12 + low \div 2^24
             rest == low % 2^24
         IN  RoundF32(Sign(a.m) * Sign(b.m)
                        * Sticky(high * 8 + rest \div 2^21, rest % 2^21 # 0),
                      a.e + b.e + 21)

\* n more bits of the quotient q of a division by d that has left `rem`.
RECURSIVE LongDiv(_, _, _, _)
LongDiv(q, rem, d, n) ==
    IF n = 0 THEN <<q, rem>>
    ELSE IF 2 * rem >= d THEN LongDiv(2 * q + 1, 2 * rem - d, d, n - 1)
    ELSE LongDiv(2 * q, 2 * rem, d, n - 1)

f32_div(a, b) ==
    IF a.m = 0 THEN F32Zero
    ELSE LET am == Abs(a.m)
             bm == Abs(b.m)
             qr == LongDiv(am \div bm, am % bm, bm, 26)
         IN  RoundF32(Sign(a.m) * Sign(b.m) * Sticky(qr[1], qr[2] # 0), a.e - b.e - 26)

f32_lt(a, b) ==
    IF a.m = 0 THEN b.m > 0
    ELSE IF b.m = 0 THEN a.m < 0
    ELSE IF Sign(a.m) # Sign(b.m) THEN a.m < 0
    ELSE IF a.m > 0 THEN a.e < b.e \/ (a.e = b.e /\ a.m < b.m)
    ELSE a.e > b.e \/ (a.e = b.e /\ a.m < b.m)

f32_le(a, b) == a = b \/ f32_lt(a, b)

f32_clamp(x, lo, hi) == IF f32_lt(x, lo) THEN lo ELSE IF f32_lt(hi, x) THEN hi ELSE x

\* The f32 nearest to the decimal n/d, as a literal or a parsed number is.
F32(n, d) == f32_div(RoundF32(n, 0), RoundF32(d, 0))

\* The slow half anchored at the normal rate and going up from it.
normalize_rate_f32_above_normal(e, user_rate) ==
    IF f32_le(user_rate, F32(1, 1))
    THEN LET t == f32_clamp(f32_div(f32_sub(user_rate, F32(25, 100)), F32(75, 100)),
                            F32(0, 1), F32(1, 1))
         IN  f32_add(e.normal, f32_mul(t, f32_sub(e.normal, e.min)))
    ELSE LET t == f32_clamp(f32_div(f32_sub(user_rate, F32(1, 1)), F32(3, 1)),
                            F32(0, 1), F32(1, 1))
         IN  f32_add(e.normal, f32_mul(t, f32_sub(e.max, e.normal)))

\* normalize_rate_for_platform in the f32 arithmetic the build uses; `e` holds
\* the engine's min_rate, normal_rate and max_rate.
normalize_rate_f32(e, user_rate) ==
    IF f32_le(user_rate, F32(1, 1))
    THEN LET t == f32_clamp(f32_div(f32_sub(user_rate, F32(25, 100)), F32(75, 100)),
                            F32(0, 1), F32(1, 1))
         IN  f32_add(e.min, f32_mul(t, f32_sub(e.normal, e.min)))
    ELSE LET t == f32_clamp(f32_div(f32_sub(user_rate, F32(1, 1)), F32(3, 1)),
                            F32(0, 1), F32(1, 1))
         IN  f32_add(e.normal, f32_mul(t, f32_sub(e.max, e.normal)))

\* ------------------------------------------- the rate mapping on its own
RateBounds(min, normal, max) == [min |-> min, normal |-> normal, max |-> max]

\* The rate scales of the four backends named in the source (AVFoundation,
\* WinRT, SpeechDispatcher, AppKit) and five more.
EngineBounds ==
    { RateBounds(F32(1, 10), F32(5, 10), F32(2, 1)),
      RateBounds(F32(5, 10), F32(1, 1), F32(6, 1)),
      RateBounds(F32(-100, 1), F32(0, 1), F32(100, 1)),
      RateBounds(F32(10, 1), F32(175, 1), F32(500, 1)),
      RateBounds(F32(0, 1), F32(5, 10), F32(1, 1)),
      RateBounds(F32(3, 10), F32(14, 10), F32(10, 1)),
      RateBounds(F32(6, 10), F32(27, 10), F32(3, 1)),
      RateBounds(F32(7, 10), F32(19, 10), F32(2, 1)),
      RateBounds(F32(0, 1), F32(7, 10), F32(19, 10)) }

\* The f32 next above 1.0.
NextAboveOne == RoundF32(2^23 + 1, -23)

\* User rates in hundredths, within and outside [0.1, 4.0], and the first
\* rate of the fast half.
UserRates ==
    { F32(k, 100) : k \in {5, 10, 25, 50, 80, 99, 100, 101, 150, 200, 400, 500} }
    \cup {NextAboveOne}

RateArgs ==
    { [fn |-> "normalize_rate_for_platform", engine |-> e, user_rate |-> u] :
      e \in EngineBounds, u \in UserRates }

normalize_rate_apply ==
    /\ arg.fn = "normalize_rate_for_platform"
    /\ ~out.returned
    /\ out' = Returns(normalize_rate_f32(arg.engine, arg.user_rate))
    /\ UNCHANGED <<session, arg>>

InitRate ==
    /\ Constructed
    /\ arg \in RateArgs
    /\ out = NoOut

\* normalize_rate_for_platform on every engine and user rate of the sets above.
SpecRate == InitRate /\ [][normalize_rate_apply]_vars

\* ==================================================================== claims
Speaking(p) == op[p] \in {"speak", "preview_voice"}

\* The call has asked for the engine lock, or is about to.
LockAttempted(p) == pc[p] \in {"lock", "engine"} \/ g[p].lockTried

\* The errors of SpeakRequest::validate and PreviewVoiceRequest::validate.
ValidationErrors ==
    {"EmptyText", "TextTooLong", "VoiceIdTooLong", "InvalidVoiceId", "LanguageTooLong"}

Setters == {"set_rate", "set_pitch", "set_volume"}

\* ---------------------------------------------------------------------- C1
\* C1: at most one caller is executing engine calls at any time, it is the
\* caller that holds the engine lock, and every other caller that needs the
\* engine cannot take the lock until the holder has released it.
C1_MutualExclusion ==
    /\ Cardinality({p \in Callers : pc[p] = "engine"}) <= 1
    /\ \A p \in Callers : pc[p] = "engine" <=> engine_lock = p
    /\ \A q \in Callers :
         (pc[q] = "lock" /\ engine_lock # NoOne) => (engine_lock # q /\ ~CanLock(q))

\* One caller runs its engine closure while another waits for the lock.
C1_Witness ==
    \E p, q \in Callers : pc[p] = "engine" /\ engine_lock = p /\ pc[q] = "lock"

\* ---------------------------------------------------------------------- C2
\* The get_voices call of q and the one that had returned Ok last when q came
\* in were made less than TTL apart, with the same filter.  A get_voices call
\* is made when it checks the cache.
PairWithin(q) ==
    /\ op[q] = "get_voices"
    /\ pc[q] = "done"
    /\ res[q].kind = "Ok"
    /\ g[q].after.valid
    /\ g[q].after.language = req[q].language
    /\ g[q].t - g[q].after.t < TTL

\* C2 as stated: any two get_voices calls made less than 60 seconds apart with
\* the engine's voices unchanged enumerate the engine at most once between
\* them and return the same voices, and a call made 60 seconds or more after
\* the cache was captured enumerates the engine.
C2_AsStated ==
    /\ \A p, q \in Callers :
         (/\ p # q
          /\ op[p] = "get_voices" /\ op[q] = "get_voices"
          /\ g[p].t >= 0 /\ g[q].t >= 0
          /\ g[p].t - g[q].t < TTL /\ g[q].t - g[p].t < TTL
          /\ pc[p] \in {"cache_store", "done"} /\ pc[q] \in {"cache_store", "done"}
          /\ voicesEpoch = 0)
         => Enums(g[p]) + Enums(g[q]) <= 1
    /\ \A q \in Callers :
         (PairWithin(q) /\ voicesEpoch = 0)
         => (res[q].value.voices = g[q].after.voices
             /\ Enums(g[q]) + g[q].after.enums <= 1)
    /\ \A q \in Callers :
         (op[q] = "get_voices" /\ pc[q] = "done" /\ g[q].stale) => Enums(g[q]) = 1

\* C2, amended: a get_voices call that comes in after another has returned Ok,
\* made less than 60 seconds after it with the same filter and the engine's
\* voices unchanged, returns the same voices, and the engine is enumerated at
\* most once for the two; a call that finds the cached entry 60 seconds old or
\* older asks for the engine lock and enumerates the engine, unless the lock
\* is poisoned or the enumeration panics.
C2_CacheTtl ==
    /\ \A q \in Callers :
         (PairWithin(q) /\ voicesEpoch = 0)
         => (res[q].value.voices = g[q].after.voices
             /\ Enums(g[q]) + g[q].after.enums <= 1)
    /\ \A q \in Callers :
         (op[q] = "get_voices" /\ pc[q] = "done" /\ g[q].stale)
         => /\ g[q].lockTried \/ res[q] = Panicked
            /\ \/ Enums(g[q]) = 1
               \/ res[q] = Err("MutexPoisoned")
               \/ res[q] = Panicked

\* A call served from the cache that an earlier call filled, later but less
\* than 60 seconds after it.
C2_Witness ==
    \E q \in Callers :
        /\ PairWithin(q)
        /\ voicesEpoch = 0
        /\ g[q].after.enums = 1
        /\ g[q].hit
        /\ g[q].t > g[q].after.t

\* A call that found the entry expired has enumerated the engine again.
C2_WitnessStale ==
    \E q \in Callers :
        op[q] = "get_voices" /\ pc[q] = "done" /\ g[q].stale /\ Enums(g[q]) = 1

\* ---------------------------------------------------------------------- C3
\* C3 as stated: every operation invoked with the engine lock already poisoned
\* fails with MutexPoisoned (inputs that pass validation; reads the cache does
\* not serve).
C3_AsStated ==
    \A p \in Callers :
        (/\ pc[p] = "done"
         /\ g[p].poisonedAtCall
         /\ op[p] \in {"speak", "stop", "get_voices", "is_speaking", "preview_voice",
                       "is_initialized"}
         /\ ~g[p].invalid
         /\ ~g[p].hit)
        => res[p] = Err("MutexPoisoned")

\* ---------------------------------------------------------------------- C4
\* C4 as stated: what a preview_voice call makes the engine speak is spoken at
\* the engine's normal rate and the default pitch and volume.
C4_AsStated ==
    \A p \in Callers :
        (op[p] = "preview_voice" /\ g[p].spoke # <<>>)
        => /\ g[p].spoke[1].rate = EngineRates.normal
           /\ g[p].spoke[1].pitch = DefaultPitch
           /\ g[p].spoke[1].volume = DefaultVolume

\* ---------------------------------------------------------------------- C5
\* C5 as stated: every speak and preview_voice call that has returned has
\* emitted exactly one speech:start.
C5_AsStated ==
    \A p \in Callers : (Speaking(p) /\ pc[p] = "done") => g[p].starts = 1

\* C5, amended: a speak or preview_voice call whose input passes validation
\* has emitted exactly one speech:start from the moment it is past validation,
\* whatever the engine does afterwards; a call whose input fails validation
\* emits none.
C5_StartPerValidCall ==
    \A p \in Callers :
        Speaking(p) => g[p].starts = (IF g[p].invalid THEN 0 ELSE 1)

\* A speak that failed on the poisoned lock, with its one start event.
C5_Witness ==
    \E p \in Callers :
        /\ Speaking(p)
        /\ pc[p] = "done"
        /\ res[p] = Err("MutexPoisoned")
        /\ g[p].starts = 1

\* ---------------------------------------------------------------------- C6
\* C6: a speak call that asks for the engine lock has emitted its speech:start
\* before, also while somebody else holds the lock, and the event carries an
\* utterance identifier no other call carries.
C6_StartBeforeLock ==
    \A p \in Callers :
        (Speaking(p) /\ LockAttempted(p))
        => /\ g[p].starts = 1
           /\ g[p].uttId >= 1
           /\ \A q \in Callers \ {p} : g[q].starts = 1 => g[q].uttId # g[p].uttId

\* The start event is out while the call still waits for a lock held by another.
C6_Witness ==
    \E p \in Callers :
        /\ Speaking(p)
        /\ pc[p] = "lock"
        /\ g[p].busy
        /\ Busy(p)
        /\ g[p].starts = 1
        /\ \E q \in Callers \ {p} : Speaking(q) /\ g[q].starts = 1

\* ---------------------------------------------------------------------- C7
\* C7: stop has emitted exactly one speech:cancel before it asks for the
\* engine lock, and so whatever happens next: the lock poisoned, the native
\* stop failing or succeeding.
C7_CancelOnEveryStop ==
    \A p \in Callers :
        op[p] = "stop"
        => /\ g[p].cancels = 1
           /\ pc[p] = "lock" => g[p].calls = <<>>

\* A stop that failed on the poisoned lock, with its cancel event.
C7_Witness ==
    \E p \in Callers :
        /\ op[p] = "stop"
        /\ pc[p] = "done"
        /\ res[p] = Err("MutexPoisoned")
        /\ g[p].cancels = 1

\* ---------------------------------------------------------------------- C8
\* C8: a speak or preview_voice call whose input fails validation returns the
\* validation error at once, without asking for the engine lock and without
\* an engine call; a call that asks for the lock carries a valid payload.
C8_ValidationBeforeLock ==
    \A p \in Callers :
        Speaking(p)
        => IF g[p].invalid
           THEN /\ pc[p] = "done"
                /\ res[p].kind = "Err"
                /\ res[p].err \in ValidationErrors
                /\ ~g[p].lockTried
                /\ g[p].calls = <<>>
                /\ g[p].spoke = <<>>
           ELSE /\ Len(req[p].text) > 0
                /\ req[p].voice_id # None
                   => \A i \in 1..Len(req[p].voice_id) :
                        req[p].voice_id[i] \in Letters \cup Digits \cup UnicodeAlnum
                                               \cup {".", "_", "-"}

\* An invalid request returns while another caller holds the engine lock.
C8_Witness ==
    \E p \in Callers :
        /\ Speaking(p)
        /\ g[p].invalid
        /\ pc[p] = "done"
        /\ Busy(p)
        /\ \E q \in Callers : pc[q] = "engine"

\* ---------------------------------------------------------------------- C9
\* C9: a get_voices call that finds a present entry younger than 60 seconds
\* returns the filtered cached voices without asking for the engine lock and
\* without an engine call, whoever holds the engine lock.
C9_CacheHitNeedsNoEngine ==
    \A p \in Callers :
        (op[p] = "get_voices" /\ g[p].hit)
        => /\ pc[p] = "done"
           /\ ~g[p].lockTried
           /\ g[p].calls = <<>>
           /\ voice_cache # <<>>
           /\ now - voice_cache[1].cached_at < TTL
           /\ res[p] = Ok(filter_voices(voice_cache[1].voices, req[p].language))

\* A cache hit returns while another caller is inside its engine closure.
C9_Witness ==
    \E p, q \in Callers :
        /\ op[p] = "get_voices"
        /\ g[p].hit
        /\ pc[p] = "done"
        /\ g[p].busy
        /\ pc[q] = "engine"
        /\ engine_lock = q

\* --------------------------------------------------------------------- C10
\* C10: a speak whose validated rate, pitch and volume are all 1.0 calls none
\* of set_rate, set_pitch, set_volume.
C10_DefaultsSkipSetters ==
    \A p \in Callers :
        (/\ op[p] = "speak"
         /\ ~g[p].invalid
         /\ req[p].rate = DefaultRate
         /\ req[p].pitch = DefaultPitch
         /\ req[p].volume = DefaultVolume)
        => \A i \in 1..Len(g[p].calls) : g[p].calls[i] \notin Setters

\* A speak with all defaults has spoken after an earlier speak configured the engine.
C10_Witness ==
    \E p \in Callers :
        /\ op[p] = "speak"
        /\ pc[p] = "done"
        /\ req[p].rate = DefaultRate /\ req[p].pitch = DefaultPitch
        /\ req[p].volume = DefaultVolume
        /\ g[p].spoke # <<>>
        /\ g[p].calls = <<"speak">>
        /\ engine.rate # EngineRates.normal

\* --------------------------------------------------------------------- C11
\* The characters [A-Za-z0-9._-].
AsciiAllowed == Letters \cup Digits \cup {".", "_", "-"}

HasCharOutside(id) == \E i \in 1..Len(id) : id[i] \notin AsciiAllowed

\* C11 as stated: a voice id with a character outside [A-Za-z0-9._-] is
\* rejected with InvalidVoiceId, whatever its length.
C11_AsStated ==
    (arg.fn = "validate_voice_id" /\ out.returned /\ HasCharOutside(arg.id))
    => out.value = ValidationErr("InvalidVoiceId")

\* --------------------------------------------------------------------- C12
\* The rules of SpeakRequest::validate, in their order; "Ok" when none fails.
FirstFailingRule(r) ==
    IF Len(r.text) = 0 THEN "EmptyText"
    ELSE IF ByteLen(r.text) > MAX_TEXT_LENGTH THEN "TextTooLong"
    ELSE IF r.voice_id # None /\ ByteLen(r.voice_id) > MAX_VOICE_ID_LENGTH
    THEN "VoiceIdTooLong"
    ELSE IF r.voice_id # None
            /\ \E i \in 1..Len(r.voice_id) :
                 ~(is_alphanumeric(r.voice_id[i]) \/ r.voice_id[i] \in {".", "_", "-"})
    THEN "InvalidVoiceId"
    ELSE IF r.language # None /\ ByteLen(r.language) > MAX_LANGUAGE_LENGTH
    THEN "LanguageTooLong"
    ELSE "Ok"

SpeakTextCheck(t) ==
    validate([text |-> t, language |-> None, voice_id |-> None, rate |-> DefaultRate,
              pitch |-> DefaultPitch, volume |-> DefaultVolume, queue_mode |-> "Flush"])

\* C19 as stated: preview_voice with no custom text gives native speak the
\* default sentence, with custom text that text; empty custom text is
\* rejected with EmptyText and custom text over 10,000 bytes with TextTooLong.
C19_AsStated ==
    (arg.fn = "preview_voice" /\ out.returned)
    => /\ out.value.res.kind = "Ok"
          => out.value.spoke[1].text
             = (IF arg.req.text = None THEN DEFAULT_SAMPLE_TEXT ELSE arg.req.text)
       /\ arg.req.text = <<>> => out.value.res = Err("EmptyText")
       /\ (arg.req.text # None /\ ByteLen(arg.req.text) > MAX_TEXT_LENGTH)
          => out.value.res = Err("TextTooLong")

\* C19, amended: for a voice id that passes validation, preview_voice with no
\* custom text gives native speak the default sentence and with custom text
\* exactly that text, and rejects custom text as speak does: EmptyText when
\* empty, TextTooLong over 10,000 bytes.  A voice id that fails validation is
\* reported first, whatever the text.
C19_PreviewText ==
    (arg.fn = "preview_voice" /\ out.returned)
    => IF validate_voice_id(arg.req.voice_id).ok
       THEN /\ arg.req.text = None
               => /\ out.value.res.kind = "Ok"
                  /\ Len(out.value.spoke) = 1
                  /\ out.value.spoke[1].text = DEFAULT_SAMPLE_TEXT
            /\ arg.req.text # None
               => /\ out.value.res.kind = "Ok" <=> SpeakTextCheck(arg.req.text).ok
                  /\ out.value.res.kind = "Ok"
                     => (Len(out.value.spoke) = 1
                         /\ out.value.spoke[1].text = arg.req.text)
                  /\ out.value.res.kind # "Ok"
                     => out.value.res = Err(SpeakTextCheck(arg.req.text).err)
            /\ arg.req.text = <<>> => out.value.res = Err("EmptyText")
            /\ (arg.req.text # None /\ ByteLen(arg.req.text) > MAX_TEXT_LENGTH)
               => out.value.res = Err("TextTooLong")
       ELSE /\ out.value.res = Err(validate_voice_id(arg.req.voice_id).err)
            /\ out.value.spoke = <<>>

\* A preview with custom text has given native speak exactly that text.
C19_Witness ==
    /\ arg.fn = "preview_voice"
    /\ out.returned
    /\ arg.req.text = Hi
    /\ out.value.res.kind = "Ok"
    /\ out.value.spoke[1].text = Hi
    /\ out.value.spoke[1].voice = arg.req.voice_id

\* --------------------------------------------------------------------- C13
\* The scenario: speak({text: "Hi", rate: 0.8, pitch: 1.2, volume: 0.9}) on an
\* engine with rate bounds min 0, normal 0.5, max 1.
ScenarioRequest ==
    [text |-> Hi, language |-> None, voice_id |-> None,
     rate |-> 800, pitch |-> 1200, volume |-> 900, queue_mode |-> "Flush"]

ScenarioCall ==
    /\ arg.fn = "normalize_rate_for_platform"
    /\ arg.engine = RateBounds(F32(0, 1), F32(5, 10), F32(1, 1))
    /\ arg.user_rate = F32(8, 10)
    /\ out.returned

\* lo <= x <= hi.
Within(x, lo, hi) == f32_le(lo, x) /\ f32_le(x, hi)

\* C13 as stated: in the scenario the native rate set is about 0.8667.
C13_AsStated == ScenarioCall => Within(out.value, F32(8666, 10000), F32(8667, 10000))

\* C13, amended: in the scenario speak does set the native rate, and sets it
\* to 0 + ((0.8 - 0.25) / 0.75) * (0.5 - 0), about 0.3667 (t = 0.733).
C13_ScenarioRate ==
    ScenarioCall
    => /\ validate(ScenarioRequest).ok
       /\ sets_rate(validate(ScenarioRequest).value)
       /\ Within(out.value, F32(3666, 10000), F32(3667, 10000))
       /\ normalize_rate_for_platform([min |-> 0, normal |-> 500, max |-> 1000],
                                      validate(ScenarioRequest).value.rate) = 366

\* The scenario's rate has been mapped.
C13_Witness == ScenarioCall /\ f32_lt(out.value, arg.engine.normal)

BestEffort(o) ==
    IF o \in {"speak", "preview_voice"}
    THEN {"set_voice", "set_rate", "set_pitch", "set_volume"}
    ELSE {}

\* C16 as stated: an operation in which a native call other than speak's
\* set_voice, set_rate, set_pitch, set_volume returned an error returns an
\* error, and a speak that returns Ok has success = true.
C16_AsStated ==
    \A p \in Callers :
        (pc[p] = "done" /\ res[p] # Panicked)
        => /\ g[p].failed \ BestEffort(op[p]) # {} => res[p].kind = "Err"
           /\ (Speaking(p) /\ res[p].kind = "Ok") => res[p].value.success

\* --------------------------------------------------------------------- C17
\* The request names a voice the engine does not have.
MissingVoice(r) ==
    /\ r.voice_id # None
    /\ \A i \in 1..Len(EngineVoiceList) : EngineVoiceList[i].id # r.voice_id

Count(c, calls) == Cardinality({i \in 1..Len(calls) : calls[i] = c})

\* C17: the engine closure of a speak whose voice id matches none of the
\* engine's voices leaves the engine's selected voice as it was, calls native
\* speak exactly once and, when native speak succeeds, has given it the
\* request's text and returns success.
C17_MissingVoiceIgnored ==
    [][\A p \in Callers :
         (/\ pc[p] = "engine"
          /\ pc'[p] = "done"
          /\ op[p] = "speak"
          /\ MissingVoice(req[p])
          /\ res'[p] # Panicked)
         => /\ engine'.voice = engine.voice
            /\ Count("set_voice", g'[p].calls) = 0
            /\ Count("speak", g'[p].calls) = 1
            /\ "speak" \notin g'[p].failed
               => /\ res'[p] = Ok([success |-> TRUE, warning |-> None])
                  /\ Len(g'[p].spoke) = 1
                  /\ g'[p].spoke[1].text = req[p].text
                  /\ g'[p].spoke[1].voice = engine.voice
            /\ "speak" \in g'[p].failed => res'[p].kind = "Err"]_vars

\* A speak with an unknown voice has succeeded, spoken with the voice an
\* earlier speak selected.
C17_Witness ==
    \E p \in Callers :
        /\ op[p] = "speak"
        /\ pc[p] = "done"
        /\ MissingVoice(req[p])
        /\ res[p].kind = "Ok"
        /\ g[p].spoke # <<>>
        /\ g[p].spoke[1].voice = <<"v", "2">>
        /\ engine.voice = <<"v", "2">>

Snapshot(p) == IF g[p].hit THEN voice_cache[1].voices ELSE fetched[p]

Ids(voices) == [i \in 1..Len(voices) |-> voices[i].id]

\* C20: with a filter a get_voices call returns exactly the voices of its
\* snapshot whose lower-cased language contains the lower-cased filter, in
\* snapshot order, so that "en" matches "en-US" and "EN-gb" and not "pt-BR";
\* with no filter it returns the whole snapshot; from the cache as from a
\* fresh enumeration.
C20_LanguageFilter ==
    \A p \in Callers :
        (op[p] = "get_voices" /\ pc[p] = "done" /\ res[p].kind = "Ok")
        => /\ req[p].language = None => res[p].value.voices = Snapshot(p)
           /\ req[p].language # None
              => res[p].value.voices
                 = SelectSeq(Snapshot(p),
                             LAMBDA v : contains(to_lowercase(v.language),
                                                 to_lowercase(req[p].language)))
           /\ req[p].language = <<"e", "n">>
              => Ids(res[p].value.voices)
                 = SelectSeq(Ids(Snapshot(p)),
                             LAMBDA id : id \in {<<"v", "1">>, <<"v", "3">>})

\* A filtered read served from the cache has matched "EN-gb" as well as "en-US".
C20_Witness ==
    \E p \in Callers :
        /\ op[p] = "get_voices"
        /\ pc[p] = "done"
        /\ g[p].hit
        /\ req[p].language = <<"e", "n">>
        /\ Len(Snapshot(p)) = 3
        /\ Ids(res[p].value.voices) = << <<"v", "1">>, <<"v", "3">> >>

\* --------------------------------------------------------------------- C23
BestEffortSetters == {"set_voice", "set_rate", "set_pitch", "set_volume"}

\* C23: a speak whose engine closure ran has called native speak exactly
\* once, last, whichever of set_voice, set_rate, set_pitch, set_volume failed;
\* it returns Ok exactly when native speak succeeded, having given it the
\* request's text, and the engine's error when native speak failed.
C23_SettersBestEffort ==
    \A p \in Callers :
        (Speaking(p) /\ pc[p] = "done" /\ g[p].calls # <<>>)
        => /\ Count("speak", g[p].calls) = 1
           /\ g[p].calls[Len(g[p].calls)] = "speak"
           /\ res[p].kind = "Ok" <=> "speak" \notin g[p].failed
           /\ "speak" \notin g[p].failed
              => /\ res[p] = Ok([success |-> TRUE, warning |-> None])
                 /\ Len(g[p].spoke) = 1
                 /\ g[p].spoke[1].text = req[p].text
           /\ "speak" \in g[p].failed => (res[p] = Err("Tts") /\ g[p].spoke = <<>>)

\* A speak has succeeded although one of its setters failed.
C23_Witness ==
    \E p \in Callers :
        /\ op[p] = "speak"
        /\ pc[p] = "done"
        /\ g[p].failed \cap BestEffortSetters # {}
        /\ res[p].kind = "Ok"
        /\ g[p].spoke # <<>>
        /\ g[p].spoke[1].text = Hi

\* --------------------------------------------------------------------- C24
\* C24: native speak is given interrupt = true exactly when the request's
\* queue mode is not Add, and a preview_voice call, whose request is always
\* Flush, always gives it interrupt = true.
C24_InterruptUnlessAdd ==
    \A p \in Callers :
        (Speaking(p) /\ g[p].spoke # <<>>)
        => /\ g[p].spoke[1].interrupt <=> req[p].queue_mode # "Add"
           /\ req[p].queue_mode = "Flush" => g[p].spoke[1].interrupt
           /\ req[p].queue_mode = "Add" => ~g[p].spoke[1].interrupt
           /\ op[p] = "preview_voice"
              => (req[p].queue_mode = "Flush" /\ g[p].spoke[1].interrupt)

\* A speak with queue mode Add has spoken without interrupting.
C24_Witness ==
    \E p \in Callers :
        /\ op[p] = "speak"
        /\ pc[p] = "done"
        /\ req[p].queue_mode = "Add"
        /\ g[p].spoke # <<>>
        /\ ~g[p].spoke[1].interrupt

\* --------------------------------------------------------------------- C27
\* C27: the engine closure of a speak calls set_rate (set_pitch, set_volume)
\* exactly when the validated rate (pitch, volume) is not 1.0; a setter that
\* is called and succeeds leaves the engine with the request's value, the
\* rate mapped to the engine's scale; a parameter at 1.0 is left as the
\* engine had it, never put back to its default; and what is spoken is spoken
\* with the engine's values after the setters.
C27_SettersPersist ==
    [][\A p \in Callers :
         (/\ pc[p] = "engine"
          /\ pc'[p] = "done"
          /\ Speaking(p)
          /\ res'[p] # Panicked)
         => /\ Count("set_rate", g'[p].calls) = (IF req[p].rate # DefaultRate THEN 1 ELSE 0)
            /\ Count("set_pitch", g'[p].calls) = (IF req[p].pitch # DefaultPitch THEN 1 ELSE 0)
            /\ Count("set_volume", g'[p].calls)
               = (IF req[p].volume # DefaultVolume THEN 1 ELSE 0)
            /\ engine'.rate
               = (IF req[p].rate # DefaultRate /\ "set_rate" \notin g'[p].failed
                  THEN normalize_rate_for_platform(EngineRates, req[p].rate)
                  ELSE engine.rate)
            /\ engine'.pitch
               = (IF req[p].pitch # DefaultPitch /\ "set_pitch" \notin g'[p].failed
                  THEN req[p].pitch ELSE engine.pitch)
            /\ engine'.volume
               = (IF req[p].volume # DefaultVolume /\ "set_volume" \notin g'[p].failed
                  THEN req[p].volume ELSE engine.volume)
            /\ g'[p].spoke # <<>>
               => /\ g'[p].spoke[1].rate = engine'.rate
                  /\ g'[p].spoke[1].pitch = engine'.pitch
                  /\ g'[p].spoke[1].volume = engine'.volume]_vars

\* A speak that set the rate alone has spoken with the pitch and the volume
\* an earlier speak had set.
C27_Witness ==
    \E p \in Callers :
        /\ op[p] = "speak"
        /\ pc[p] = "done"
        /\ req[p].rate = 4000 /\ req[p].pitch = DefaultPitch /\ req[p].volume = DefaultVolume
        /\ g[p].spoke # <<>>
        /\ g[p].spoke[1].rate = normalize_rate_for_platform(EngineRates, 4000)
        /\ g[p].spoke[1].pitch = 1200
        /\ g[p].spoke[1].volume = 900

\* --------------------------------------------------------------------- C22
\* The lists an enumeration of the engine can return.
Enumerations == {VoicesBefore, VoicesAfter}

\* C22: the cache is empty or holds the list of one enumeration of the
\* engine; the cache changes only when a refresher stores, and then to
\* exactly the list that refresher enumerated, whatever the cache held and
\* whatever other refreshers enumerated; and the refresher returns the filter
\* of its own list.
C22_ReplacedWholesale ==
    /\ [](voice_cache = <<>> \/ voice_cache[1].voices \in Enumerations)
    /\ [][/\ voice_cache' # voice_cache
             => \E p \in Callers :
                  /\ pc[p] = "cache_store"
                  /\ pc'[p] = "done"
                  /\ voice_cache' = << [voices |-> fetched[p], cached_at |-> now] >>
          /\ \A p \in Callers :
               (pc[p] = "cache_store" /\ pc'[p] = "done")
               => /\ voice_cache'[1].voices = fetched[p]
                  /\ res'[p] = Returned(op[p], Ok(filter_voices(fetched[p], req[p].language)))
          /\ \A p \in Callers :
               (pc[p] = "engine" /\ pc'[p] = "cache_store")
               => fetched'[p] = enumerate({}).value]_vars

\* Two refreshers hold different enumerations: one has stored and returned
\* its own, the other is about to replace it with the older list.
C22_Witness ==
    \E p, q \in Callers :
        /\ pc[p] = "cache_store"
        /\ fetched[p] = VoicesBefore
        /\ op[q] = "get_voices"
        /\ pc[q] = "done"
        /\ ~g[q].hit
        /\ fetched[q] = VoicesAfter
        /\ voice_cache # <<>>
        /\ voice_cache[1].voices = VoicesAfter
        /\ res[q] = Ok(filter_voices(VoicesAfter, req[q].language))

\* --------------------------------------------------------------------- C26
\* C26: whoever holds the engine lock is inside its engine closure and holds
\* no guard of the voice cache; whoever holds the cache's read guard is at
\* the cache check and does not hold the engine lock; and whoever is about to
\* take the cache's write guard has released the engine lock and holds no
\* read guard.
C26_NeverBothLocks ==
    \A p \in Callers :
        /\ engine_lock = p => (pc[p] = "engine" /\ p \notin readers)
        /\ p \in readers => (pc[p] = "cache_check" /\ engine_lock # p)
        /\ pc[p] = "cache_store" => (engine_lock # p /\ p \notin readers)
        /\ pc[p] = "lock" => p \notin readers

\* One caller is inside the engine while the other holds the read guard.
C26_Witness ==
    \E p, q \in Callers :
        /\ engine_lock = p
        /\ op[p] = "is_initialized"
        /\ pc[p] = "engine"
        /\ q \in readers
        /\ pc[q] = "cache_check"

Refreshing(p) == op[p] \in {"get_voices", "is_initialized"}

\* The step in which p's refresh fails: the enumeration returns an error, or
\* the engine lock is found poisoned.
RefreshFails(p) ==
    /\ Refreshing(p)
    /\ pc[p] \in {"lock", "engine"}
    /\ pc'[p] = "done"
    /\ res'[p] # Panicked

\* The cache changes only in the store step of a refresh that succeeded, so
\* speak, stop, is_speaking, pause_speaking and resume_speaking never change it.
OnlyRefreshStores ==
    voice_cache' # voice_cache
    => \E p \in Callers : Refreshing(p) /\ pc[p] = "cache_store" /\ pc'[p] = "done"

\* C28 as stated: a failed refresh returns the error and leaves the cache as
\* it was, absent or expired, so that the next get_voices call enumerates the
\* engine again; and only get_voices changes the cache.
C28_AsStated ==
    [][/\ \A p \in Callers :
            RefreshFails(p)
            => /\ res'[p] \in {Returned(op[p], Err("Tts")),
                               Returned(op[p], Err("MutexPoisoned"))}
               /\ voice_cache' = voice_cache
               /\ voice_cache' = <<>> \/ now' - voice_cache'[1].cached_at >= TTL
       /\ OnlyRefreshStores]_vars

\* C28, amended: a failed refresh returns the error and leaves the cache as
\* it was when it failed: absent, expired, or holding the entry another call
\* stored after the failing call had checked the cache (in which case the
\* next get_voices call is served from the cache and does not enumerate);
\* and only get_voices changes the cache.
C28_RefreshFailureFrame ==
    [][/\ \A p \in Callers :
            RefreshFails(p)
            => /\ res'[p] \in {Returned(op[p], Err("Tts")),
                               Returned(op[p], Err("MutexPoisoned"))}
               /\ op[p] = "get_voices"
                  => /\ res'[p].kind = "Err"
                     /\ res'[p] = Err("Tts") <=> g'[p].failed = {"voices"}
                     /\ res'[p] = Err("MutexPoisoned") <=> poisoned
               /\ voice_cache' = voice_cache
               /\ \/ voice_cache' = <<>>
                  \/ now' - voice_cache'[1].cached_at >= TTL
                  \/ voice_cache'[1].cached_at >= g[p].t
       /\ OnlyRefreshStores]_vars

\* A get_voices call that found the entry expired has failed to enumerate,
\* and the expired entry is still there.
C28_Witness ==
    \E p \in Callers :
        /\ op[p] = "get_voices"
        /\ pc[p] = "done"
        /\ g[p].stale
        /\ res[p] = Err("Tts")
        /\ voice_cache # <<>>
        /\ ~is_valid(voice_cache[1])

\* --------------------------------------------------------------------- C21
\* The call has been taken and has not returned.
Waiting(p) == pc[p] \in {"lock", "engine", "cache_check", "cache_store"}

\* The step in which handler p takes a speak or a stop and emits its event.
Emits(p) ==
    /\ Ready(p)
    /\ pc'[p] = "lock"
    /\ g'[p].starts = 1 \/ g'[p].cancels = 1

\* C21: the callbacks can run whoever holds the engine lock or reads the
\* cache, and a callback step emits its event and leaves the locks, the engine
\* and the cache alone; speak and stop emit their event in a step in which
\* they hold neither lock; in no state with a call under way are all handlers
\* stuck; and every call under way returns in the end.
C21_NoDeadlock ==
    /\ [](ENABLED utterance_end /\ ENABLED utterance_stop)
    /\ [](\A p \in Callers : Waiting(p) => \E q \in Callers : ENABLED Runs(q))
    /\ [][/\ emitted' # emitted
             => UNCHANGED <<engine_lock, poisoned, engine, voice_cache, readers, ncalls>>
          /\ \A p \in Callers :
               Emits(p)
               => /\ engine_lock # p /\ engine_lock' # p
                  /\ p \notin readers /\ p \notin readers'
                  /\ UNCHANGED <<engine_lock, readers>>]_vars
    /\ \A p \in Callers : Waiting(p) ~> pc[p] = "done"

\* A speak is inside the engine and a stop waits for the lock, on an engine
\* whose callbacks are set and have emitted an event.
C21_Witness ==
    \E p, q \in Callers :
        /\ op[p] = "speak" /\ pc[p] = "engine" /\ engine_lock = p
        /\ op[q] = "stop" /\ pc[q] = "lock" /\ g[q].cancels = 1
        /\ registered = {"on_utterance_end", "on_utterance_stop"}
        /\ emitted # {}

\* --------------------------------------------------------------------- C25
\* C25: on an engine that does not support utterance callbacks the callbacks
\* emit nothing, so no speech:finish is emitted, and the speech:cancel events
\* are those of stop, one for each stop call and none for any other call; on
\* an engine that supports them the callbacks emit speech:finish and
\* speech:cancel only, without an utterance id.
C25_EngineEvents ==
    /\ ~utterance_callbacks
       => /\ registered = {}
          /\ emitted = {}
          /\ \A p \in Callers : g[p].cancels = (IF op[p] = "stop" THEN 1 ELSE 0)
    /\ \A e \in emitted :
         /\ e.id = None
         /\ e \in {SpeechEvent("speech:finish", None, "finish"),
                    SpeechEvent("speech:cancel", None, "cancel")}
    /\ \A p \in Callers : g[p].cancels = 1 => op[p] = "stop"

\* On an engine without utterance callbacks a stop has returned: its one
\* cancel event is the only event there is.
C25_Witness ==
    /\ ~utterance_callbacks
    /\ emitted = {}
    /\ \E p \in Callers :
         /\ op[p] = "stop"
         /\ pc[p] = "done"
         /\ res[p].kind = "Ok"
         /\ g[p].cancels = 1
    /\ ncalls >= 2

====
